---- MODULE Spec2Model ----
(***************************************************************************)
(* Retrieval models of the information retrieval system (src/models.py)   *)
(* and the search handlers that drive them (src/ir_system.py).            *)
(*                                                                         *)
(* Spec     : InvertedListBooleanModel (add_document, evaluate_expression, *)
(*            match).                                                      *)
(* SigSpec  : SignatureBasedBooleanModel (document_to_representation,      *)
(*            query_to_representation, search, match).                     *)
(* VecSpec  : VectorSpaceModel (document_to_representation,                *)
(*            query_to_representation, match).                             *)
(* StemSpec : the Porter stemmer stem_term of src/porter.py, one action    *)
(*            per step of the algorithm.                                   *)
(***************************************************************************)
EXTENDS Integers, Sequences, FiniteSets, Bags, TLC

VARIABLES
    documents,       \* InvertedListBooleanModel.documents: list of term sets
    inverted_index,  \* InvertedListBooleanModel.inverted_index: term -> set of ids
    queried,         \* TRUE once a query has been evaluated against the index
    ev,              \* the call in progress and what it returned to its caller
    term_hash,       \* SignatureBasedBooleanModel.term_hash: term -> mini-signature
    signatures,      \* the dict document_to_representation returned: id -> blocks
    sig_docs,        \* the collection the signatures were built from, as the build left it
    sig_sample,      \* what random.sample returns after random.seed(h), per seed h
    sig_builds,      \* calls of the signature model's document_to_representation so far
    sig_indexed,     \* the terms of all documents the signature model has indexed
    rng,             \* the shared generator of module random: the seed it was last given
    sev,             \* the signature call in progress and what it returned
    vec_collection,  \* the documents given to the vector model: id and Counter(terms)
    index,           \* VectorSpaceModel.index: term -> list of (doc_id, count)
    vec_builds,      \* calls of the vector model's document_to_representation so far
    vev,             \* the vector model call in progress and what it returned
    stem_input,      \* the term given to porter.stem_term, as a list of characters
    stem_word,       \* the local variable term of stem_term
    stem_before,     \* the value of term before the step that ran last
    stem_pc          \* the statement of stem_term that runs next

vars == <<documents, inverted_index, queried, ev,
          term_hash, signatures, sig_docs, sig_sample, sig_builds, sig_indexed, rng, sev,
          vec_collection, index, vec_builds, vev,
          stem_input, stem_word, stem_before, stem_pc>>

invVars == <<documents, inverted_index, queried, ev>>
sigVars == <<term_hash, signatures, sig_docs, sig_sample, sig_builds, sig_indexed, rng, sev>>
vecVars == <<vec_collection, index, vec_builds, vev>>
stemVars == <<stem_input, stem_word, stem_before, stem_pc>>

(***************************************************************************)
(* Bounds of the model.                                                    *)
(***************************************************************************)
MaxDocs == 2        \* documents added to the inverted-list model
MaxTerms == 2       \* length of a document's term lists
MaxTokens == 2      \* length of an arbitrary (possibly malformed) token list
MaxQueryLen == 5    \* length of a well-formed query, in tokens
MaxSigDocs == 2     \* documents of a collection given to the signature model
MaxBuilds == 1      \* collections the signature model is given in one run
MaxWordLen == 3     \* length of the arbitrary words given to the stemmer

\* Parameters of SignatureBasedBooleanModel.__init__, scaled down.
signature_length == 4
num_hash_functions == 2
m == 2

Terms == {"a", "b"}

\* The tokens query_to_representation can produce: words, and the five symbols.
Tokens == Terms \cup {"&", "|", "-", "(", ")"}

\* The sequences over S of length at most n.
SeqsUpTo(S, n) == UNION {[1 .. k -> S] : k \in 0 .. n}

Range(s) == {s[i] : i \in DOMAIN s}

TermLists == SeqsUpTo(Terms, MaxTerms)

\* s is t with some of its elements removed.
IsSubSeq(s, t) ==
    \E f \in [DOMAIN s -> DOMAIN t] :
        /\ \A i, j \in DOMAIN s : i < j => f[i] < f[j]
        /\ \A i \in DOMAIN s : s[i] = t[f[i]]

\* A Document as the retrieval models see it: the three term lists.
\* stemmed_terms is empty until stem_all_documents fills it with one stem per
\* term; filtered_terms is empty until filter_collection fills it with the
\* terms that remove_stop_words_from_term_list keeps.
DocumentSet ==
    {doc : doc \in
        {d \in [terms : TermLists, stemmed_terms : TermLists, filtered_terms : TermLists] :
            /\ d.stemmed_terms = <<>> \/ Len(d.stemmed_terms) = Len(d.terms)
            /\ IsSubSeq(d.filtered_terms, d.terms)}}

(***************************************************************************)
(* InvertedListBooleanModel                                                *)
(***************************************************************************)

\* document_to_representation: the raw terms, replaced by the stemmed terms
\* when stemming is on, replaced by the filtered terms when filtering is on
\* (filtering is tested last, so it wins over stemming); then set(words).
document_to_representation(doc, stop_word_filtering, stemming) ==
    LET words0 == doc.terms
        words1 == IF stemming THEN doc.stemmed_terms ELSE words0
        words2 == IF stop_word_filtering THEN doc.filtered_terms ELSE words1
    IN  Range(words2)

\* Mutant of CompleteDocs: ids counted from one, set(range(1, len + 1)).
CompleteDocsFromOne(docs) == 1 .. Len(docs)

\* complete_docs = set(range(len(self.documents)))
CompleteDocs(docs) == 0 .. (Len(docs) - 1)

\* Mutant of AddPosting: the id is taken after the append without the - 1.
AddPostingLenAsId(idx, term, doc_idx) ==
    IF term \in DOMAIN idx THEN idx[term] \cup {doc_idx + 1} ELSE {doc_idx + 1}

\* The postings entry the index gains for one term of an added document.
AddPosting(idx, term, doc_idx) ==
    IF term \in DOMAIN idx THEN idx[term] \cup {doc_idx} ELSE {doc_idx}

\* add_document's loop: self.inverted_index[term].add(doc_idx) for every term
\* of the representation (a defaultdict: a missing term starts from set()).
IndexAfterAdd(idx, doc_rep, doc_idx) ==
    [t \in (DOMAIN idx) \cup doc_rep |->
        IF t \in doc_rep THEN AddPosting(idx, t, doc_idx) ELSE idx[t]]

\* Objects on the evaluation stack.  A term found in the index is pushed as
\* the very set object the index holds (idx.get returns it, not a copy): "ref".
\* A missing term gives a new set(), and NOT gives a new difference set: "val".
\* '&' and '|' push the strings 'AND' and 'OR': "op".
Ref(t) == [k |-> "ref", t |-> t, s |-> {}, o |-> ""]
Val(s) == [k |-> "val", t |-> "", s |-> s, o |-> ""]
Op(o)  == [k |-> "op",  t |-> "", s |-> {}, o |-> o]
NoObj  == [k |-> "none", t |-> "", s |-> {}, o |-> ""]

\* Mutant of IdxGet: idx[term] on the defaultdict, which inserts a missing key.
IdxGetSubscript(idx, term) ==
    [idx |-> IF term \in DOMAIN idx THEN idx
             ELSE [t \in (DOMAIN idx) \cup {term} |-> IF t = term THEN {} ELSE idx[t]],
     obj |-> Ref(term)]

\* idx.get(term, set()): the object found and the dict after the lookup.
\* dict.get leaves a defaultdict as it is, also when the key is missing.
IdxGet(idx, term) ==
    [idx |-> idx, obj |-> IF term \in DOMAIN idx THEN Ref(term) ELSE Val({})]

\* The set an object currently holds.
Deref(idx, obj) == IF obj.k = "ref" THEN idx[obj.t] ELSE obj.s

\* What a (sub)evaluation hands back: the tokens left, the index as the
\* in-place operators left it, the returned object, and whether it raised.
Outcome(toks, idx, res, err) == [toks |-> toks, idx |-> idx, res |-> res, err |-> err]

\* Mutant of InPlace: the two operators exchanged.
InPlaceExchanged(operator, idx, res, operand) ==
    IF res.k = "op" \/ operand.k = "op" THEN Outcome(<<>>, idx, NoObj, TRUE)
    ELSE LET l == Deref(idx, res)
             r == Deref(idx, operand)
             v == IF operator = "AND" THEN l \cup r ELSE l \cap r
         IN  IF res.k = "ref"
             THEN Outcome(<<>>, [idx EXCEPT ![res.t] = v], res, FALSE)
             ELSE Outcome(<<>>, idx, Val(v), FALSE)

\* expression_result &= operand  /  expression_result |= operand.
\* A set on the left is updated in place; a string on either side raises
\* TypeError.
InPlace(operator, idx, res, operand) ==
    IF res.k = "op" \/ operand.k = "op" THEN Outcome(<<>>, idx, NoObj, TRUE)
    ELSE LET l == Deref(idx, res)
             r == Deref(idx, operand)
             v == IF operator = "AND" THEN l \cap r ELSE l \cup r
         IN  IF res.k = "ref"
             THEN Outcome(<<>>, [idx EXCEPT ![res.t] = v], res, FALSE)
             ELSE Outcome(<<>>, idx, Val(v), FALSE)

\* The second loop of evaluate_expression (lines 118-123): pop an operator,
\* and for 'AND' / 'OR' pop its right operand (IndexError when none is left)
\* and apply it in place; anything else popped as the operator is dropped.
RECURSIVE ReduceStack(_, _, _)
ReduceStack(idx, res, stack) ==
    IF stack = <<>> THEN Outcome(<<>>, idx, res, FALSE)
    ELSE LET operator == Head(stack)
             rest == Tail(stack)
         IN  IF operator.k = "op"
             THEN IF rest = <<>> THEN Outcome(<<>>, idx, NoObj, TRUE)
                  ELSE LET r == InPlace(operator.o, idx, res, Head(rest))
                       IN  IF r.err THEN r
                           ELSE ReduceStack(r.idx, r.res, Tail(rest))
             ELSE ReduceStack(idx, res, rest)

\* Lines 117-125: expression_result = evaluation_stack.pop(0) (IndexError on
\* an empty stack), then the reduction; toks is what the caller goes on with.
Reduce(toks, idx, stack) ==
    IF stack = <<>> THEN Outcome(toks, idx, NoObj, TRUE)
    ELSE LET r == ReduceStack(idx, Head(stack), Tail(stack))
         IN  Outcome(toks, r.idx, r.res, r.err)

\* The first loop of evaluate_expression (lines 101-115), token by token; a
\* '(' evaluates the rest of the shared token list recursively and goes on
\* with what that call left of it.
RECURSIVE Scan(_, _, _, _)
Scan(toks, idx, complete_docs, stack) ==
    IF toks = <<>> THEN Reduce(toks, idx, stack)
    ELSE LET current_token == Head(toks)
             rest == Tail(toks)
         IN  CASE current_token = "(" ->
                    LET sub == Scan(rest, idx, complete_docs, <<>>)
                    IN  IF sub.err THEN sub
                        ELSE Scan(sub.toks, sub.idx, complete_docs, Append(stack, sub.res))
               [] current_token = ")" -> Reduce(rest, idx, stack)
               [] current_token = "&" -> Scan(rest, idx, complete_docs, Append(stack, Op("AND")))
               [] current_token = "|" -> Scan(rest, idx, complete_docs, Append(stack, Op("OR")))
               [] current_token = "-" ->
                    IF rest = <<>> THEN Outcome(rest, idx, NoObj, TRUE)
                    ELSE LET next_term == Head(rest)
                             got == IdxGet(idx, next_term)
                             neg == complete_docs \ Deref(got.idx, got.obj)
                         IN  Scan(Tail(rest), got.idx, complete_docs, Append(stack, Val(neg)))
               [] OTHER ->
                    LET got == IdxGet(idx, current_token)
                    IN  Scan(rest, got.idx, complete_docs, Append(stack, got.obj))

\* evaluate_expression(token_list, idx, complete_docs)
evaluate_expression(token_list, idx, complete_docs) ==
    Scan(token_list, idx, complete_docs, <<>>)

\* documents.index(doc_representation): the first position holding an equal set.
FirstIndex(docs, doc_representation) ==
    CHOOSE i \in 0 .. (Len(docs) - 1) :
        /\ docs[i + 1] = doc_representation
        /\ \A j \in 0 .. (i - 1) : docs[j + 1] # doc_representation

\* What a call returned: err (it raised), kind of the returned object
\* ("set", or "str" for the string 'AND' / 'OR'), the set, and match's score
\* scaled by ten (10 for 1.0, 0 for 0.0).
NoScore == 0 - 1
Returned(err, kind, val, score) == [err |-> err, kind |-> kind, val |-> val, score |-> score]

ReturnOf(idx, out) ==
    IF out.err THEN Returned(TRUE, "none", {}, NoScore)
    ELSE IF out.res.k = "op" THEN Returned(FALSE, "str", {}, NoScore)
    ELSE Returned(FALSE, "set", Deref(idx, out.res), NoScore)

\* match(doc_representation, query_tokens): evaluate a copy of the tokens,
\* look the representation up in self.documents, test membership
\* (TypeError when the evaluation returned a string).
match(docs, idx, doc_representation, query_tokens) ==
    LET out == evaluate_expression(query_tokens, idx, CompleteDocs(docs))
        ret == ReturnOf(out.idx, out)
        doc_idx == FirstIndex(docs, doc_representation)
    IN  [idx |-> out.idx,
         ret |-> IF ret.err THEN ret
                 ELSE IF ret.kind = "str" THEN Returned(TRUE, "none", {}, NoScore)
                 ELSE Returned(FALSE, "set", ret.val,
                               IF doc_idx \in ret.val THEN 10 ELSE 0)]

(***************************************************************************)
(* Queries given to the evaluator.                                        *)
(***************************************************************************)
Operators == {"&", "|"}

\* The well-formed queries of exactly n tokens:
\*   expression := operand (operator operand)*
\*   operand    := term | '-' term | '(' expression ')'
ExprsOfLen[n \in 0 .. MaxQueryLen] ==
    LET OperandsOfLen(j) ==
            IF j <= 0 THEN {}
            ELSE IF j = 1 THEN {<<t>> : t \in Terms}
            ELSE IF j = 2 THEN {<<"-", t>> : t \in Terms}
            ELSE {<<"(">> \o e \o <<")">> : e \in ExprsOfLen[j - 2]}
    IN  OperandsOfLen(n)
        \cup UNION {{e \o <<o>> \o x : e \in ExprsOfLen[k], o \in Operators,
                                       x \in OperandsOfLen(n - 1 - k)} : k \in 1 .. (n - 2)}

WellFormedQueries == UNION {ExprsOfLen[n] : n \in 1 .. MaxQueryLen}

\* every token list up to MaxTokens, malformed ones included
ArbitraryQueries == SeqsUpTo(Tokens, MaxTokens)

Queries == {q : q \in WellFormedQueries \cup ArbitraryQueries}

(***************************************************************************)
(* Actions of the inverted-list model                                      *)
(***************************************************************************)
Idle == [op |-> "idle", tokens |-> <<>>, pos |-> 0, pre |-> <<>>,
         ret |-> Returned(FALSE, "none", {}, NoScore)]

EmptyIndex == [t \in {} |-> {}]

\* Both models as their constructors leave them; the signature model is not
\* used by this specification.
Init ==
    /\ documents = <<>>
    /\ inverted_index = EmptyIndex
    /\ queried = FALSE
    /\ ev = Idle
    /\ term_hash = <<>>
    /\ signatures = <<>>
    /\ sig_docs = <<>>
    /\ sig_sample = <<>>
    /\ sig_builds = 0
    /\ sig_indexed = {}
    /\ rng = 0
    /\ sev = [op |-> "idle", tokens |-> <<>>, err |-> FALSE, doc_ids |-> <<>>]
    /\ vec_collection = <<>>
    /\ index = <<>>
    /\ vec_builds = 0
    /\ vev = [op |-> "idle", query |-> <<>>, err |-> FALSE, ranked |-> <<>>]
    /\ stem_input = <<>>
    /\ stem_word = <<>>
    /\ stem_before = <<>>
    /\ stem_pc = "unused"

\* add_document(doc, filter_stopwords, apply_stemming)
AddDocument(doc, filter_stopwords, apply_stemming) ==
    /\ ev.op = "idle"
    /\ Len(documents) < MaxDocs
    /\ LET doc_rep == document_to_representation(doc, filter_stopwords, apply_stemming)
           docs1 == Append(documents, doc_rep)
           doc_idx == Len(docs1) - 1
       IN  /\ documents' = docs1
           /\ inverted_index' = IndexAfterAdd(inverted_index, doc_rep, doc_idx)
    /\ UNCHANGED <<queried, ev>>
    /\ UNCHANGED sigVars
    /\ UNCHANGED vecVars
    /\ UNCHANGED stemVars

\* evaluate_expression(tokens[:], self.inverted_index, complete_docs)
Evaluate(tokens) ==
    /\ ev.op = "idle"
    /\ LET out == evaluate_expression(tokens, inverted_index, CompleteDocs(documents))
       IN  /\ inverted_index' = out.idx
           /\ ev' = [op |-> "evaluate", tokens |-> tokens, pos |-> 0,
                     pre |-> inverted_index, ret |-> ReturnOf(out.idx, out)]
    /\ queried' = TRUE
    /\ UNCHANGED documents
    /\ UNCHANGED sigVars
    /\ UNCHANGED vecVars
    /\ UNCHANGED stemVars

\* match(documents[pos], tokens): the score of the document added at pos
Match(pos, tokens) ==
    /\ ev.op = "idle"
    /\ pos \in 0 .. (Len(documents) - 1)
    /\ LET res == match(documents, inverted_index, documents[pos + 1], tokens)
       IN  /\ inverted_index' = res.idx
           /\ ev' = [op |-> "match", tokens |-> tokens, pos |-> pos,
                     pre |-> inverted_index, ret |-> res.ret]
    /\ queried' = TRUE
    /\ UNCHANGED documents
    /\ UNCHANGED sigVars
    /\ UNCHANGED vecVars
    /\ UNCHANGED stemVars

\* the caller takes the result (or the exception) and goes on
Return ==
    /\ ev.op # "idle"
    /\ ev' = Idle
    /\ UNCHANGED <<documents, inverted_index, queried>>
    /\ UNCHANGED sigVars
    /\ UNCHANGED vecVars
    /\ UNCHANGED stemVars

Next ==
    \/ \E doc \in DocumentSet, f \in BOOLEAN, s \in BOOLEAN : AddDocument(doc, f, s)
    \/ \E tokens \in Queries : Evaluate(tokens)
    \/ \E pos \in 0 .. (MaxDocs - 1), tokens \in Queries : Match(pos, tokens)
    \/ Return

Spec == Init /\ [][Next]_vars

(***************************************************************************)
(* SignatureBasedBooleanModel                                              *)
(***************************************************************************)

\* Terms as documents carry them, and str.lower() of each.
SigDocTerms == {"a", "B"}
Lower(term) == IF term = "B" THEN "b" ELSE term
SigTerms == {Lower(t) : t \in SigDocTerms}

\* int(md5(term).hexdigest(), 16), reduced modulo 2520 (a multiple of every
\* signature length used here, so that % signature_length is unchanged):
\* md5("a") = 0cc175b9c0f1b6a831c399e269772661, md5("b") = 92eb5ffee6ae2fec3ad71c777531578f.
Md5(term) == IF term = "a" THEN 217 ELSE 823

\* _compute_hash(term) = int(md5(term).hexdigest(), 16) % signature_length
compute_hash(term) == Md5(term) % signature_length

\* The seeds random.seed is given for the terms of the vocabulary.
Seeds == {compute_hash(t) : t \in SigTerms}

\* random.sample(range(signature_length), m): m distinct positions.
SampleSets == {p \in SUBSET (0 .. (signature_length - 1)) : Cardinality(p) = m}

\* Mutant of random_seed: the generator is left in the state it was in.
random_seed_kept(state, hash_value) == state

\* random.seed(hash_value): the generator's state is replaced, whatever it was.
random_seed(state, hash_value) == hash_value

\* The mini-signature of a term: single_block, with the positions set that
\* random.sample returns right after random.seed(hash_value).
single_block(sample, term) ==
    LET hash_value == compute_hash(term)
        active_bits_indices == sample[random_seed(rng, hash_value)]
    IN  [i \in 1 .. signature_length |->
            IF (i - 1) \in active_bits_indices THEN 1 ELSE 0]

\* Mutant of BlockOf: the mini-signatures of a block combined with & .
BlockOfAnd(sample, four_terms) ==
    [i \in 1 .. signature_length |->
        IF \A k \in DOMAIN four_terms : single_block(sample, four_terms[k])[i] = 1
        THEN 1 ELSE 0]

\* One block: the bitwise OR of the mini-signatures of its terms.
BlockOf(sample, four_terms) ==
    [i \in 1 .. signature_length |->
        IF \E k \in DOMAIN four_terms : single_block(sample, four_terms[k])[i] = 1
        THEN 1 ELSE 0]

\* _generate_signature(terms): one block per num_hash_functions terms.
generate_signature(sample, terms) ==
    LET blocks == (Len(terms) + num_hash_functions - 1) \div num_hash_functions
    IN  [j \in 1 .. blocks |->
            LET first == (j - 1) * num_hash_functions + 1
                last == IF j * num_hash_functions < Len(terms)
                        THEN j * num_hash_functions ELSE Len(terms)
            IN  BlockOf(sample, SubSeq(terms, first, last))]

\* term_hash after _generate_signature has stored the terms' mini-signatures.
TermHashAfter(th, sample, terms) ==
    [t \in (DOMAIN th) \cup Range(terms) |->
        IF t \in Range(terms) THEN single_block(sample, t) ELSE th[t]]

\* term_hash after the signatures of the documents k, k+1, ... were generated.
RECURSIVE TermHashOfAll(_, _, _, _)
TermHashOfAll(th, sample, docs, k) ==
    IF k > Len(docs) THEN th
    ELSE TermHashOfAll(TermHashAfter(th, sample, docs[k]), sample, docs, k + 1)

\* cleanup.remove_stop_words_from_term_list: every term is cleaned, then kept
\* when is_stop_word(term, cleaned_terms) is false, that is when the term is
\* not in the cleaned list itself (remove_symbols leaves a lower-case word as
\* it is and lower-cases any other).
remove_stop_words_from_term_list(term_list) ==
    LET cleaned_terms == [i \in DOMAIN term_list |-> Lower(term_list[i])]
        NotStopWord(term) == Lower(term) \notin Range(cleaned_terms)
    IN  SelectSeq(cleaned_terms, NotStopWord)

\* search(query_bits, doc_signature): the ids, in the order of the dict, of
\* the documents with a block B such that query_bits & B = query_bits
\* (an empty query_bits compares equal for every block).
BlockMatches(query_bits, block) ==
    \A i \in DOMAIN query_bits : query_bits[i] * block[i] = query_bits[i]

DocMatches(query_bits, docs_sig) ==
    \E b \in DOMAIN docs_sig : BlockMatches(query_bits, docs_sig[b])

RECURSIVE SearchFrom(_, _, _)
SearchFrom(query_bits, sigs, k) ==
    IF k > Len(sigs) THEN <<>>
    ELSE (IF DocMatches(query_bits, sigs[k].sig) THEN <<sigs[k].id>> ELSE <<>>)
         \o SearchFrom(query_bits, sigs, k + 1)

search(query_bits, sigs) == SearchFrom(query_bits, sigs, 1)

\* Mutant of sig_query_to_representation: an unknown term gives a block of zeros.
query_to_zero_block(th, query) ==
    IF query \in DOMAIN th THEN th[query] ELSE [i \in 1 .. signature_length |-> 0]

\* query_to_representation(query): the stored mini-signature, [] when unknown.
sig_query_to_representation(th, query) ==
    IF query \in DOMAIN th THEN th[query] ELSE <<>>

\* Mutant of ZipAnd: [bit1 | bit2 for bit1, bit2 in zip(op1, op2)].
ZipOr(op1, op2) ==
    LET n == IF Len(op1) < Len(op2) THEN Len(op1) ELSE Len(op2)
    IN  [i \in 1 .. n |-> op1[i] + op2[i] - op1[i] * op2[i]]

\* [bit1 & bit2 for bit1, bit2 in zip(op1, op2)]: as long as the shorter one
ZipAnd(op1, op2) ==
    LET n == IF Len(op1) < Len(op2) THEN Len(op1) ELSE Len(op2)
    IN  [i \in 1 .. n |-> op1[i] * op2[i]]

\* list(set(ids)): the ids without repetition, in ascending order.
RECURSIVE SortedList(_)
SortedList(S) ==
    IF S = {} THEN <<>>
    ELSE LET least == CHOOSE x \in S : \A y \in S : x <= y
         IN  <<least>> \o SortedList(S \ {least})

Front(s) == SubSeq(s, 1, Len(s) - 1)
Last(s) == s[Len(s)]

MatchState(operators, stack, doc_ids, err) ==
    [operators |-> operators, stack |-> stack, doc_ids |-> doc_ids, err |-> err]

\* The '|' branch (lines 226-231): pop two operands (IndexError when the
\* stack runs out), search each, unite the ids.
OrBranch(st, sigs) ==
    IF "|" \notin Range(st.operators) THEN st
    ELSE IF Len(st.stack) < 2 THEN MatchState(st.operators, st.stack, st.doc_ids, TRUE)
    ELSE LET op1 == Last(st.stack)
             op2 == Last(Front(st.stack))
             doc_ids1 == search(op1, sigs)
             doc_ids2 == search(op2, sigs)
         IN  MatchState(st.operators, Front(Front(st.stack)),
                        SortedList(Range(doc_ids1) \cup Range(doc_ids2)), FALSE)

\* The '&' branch (lines 218-224): pop two operands, push their bitwise AND,
\* search for the bottom of the stack.
AndBranch(st, sigs) ==
    IF "&" \notin Range(st.operators) THEN st
    ELSE LET op1 == Last(st.stack)
             op2 == Last(Front(st.stack))
             stack1 == Append(Front(Front(st.stack)), ZipAnd(op1, op2))
         IN  MatchState(st.operators, stack1, search(stack1[1], sigs), FALSE)

\* while len(stack) > 1 and operators: (lines 217-231)
RECURSIVE WhileOperators(_, _)
WhileOperators(st, sigs) ==
    IF st.err \/ ~(Len(st.stack) > 1 /\ st.operators # <<>>) THEN st
    ELSE WhileOperators(OrBranch(AndBranch(st, sigs), sigs), sigs)

\* for token in tokens: (lines 208-231)
RECURSIVE ForTokens(_, _, _, _)
ForTokens(tokens, st, th, sigs) ==
    IF st.err \/ tokens = <<>> THEN st
    ELSE LET token == Head(tokens)
         IN  IF token \in {"&", "|"}
             THEN ForTokens(Tail(tokens),
                            MatchState(Append(st.operators, token), st.stack, st.doc_ids, FALSE),
                            th, sigs)
             ELSE LET query_signature == sig_query_to_representation(th, token)
                      pushed == MatchState(st.operators, Append(st.stack, query_signature),
                                           st.doc_ids, FALSE)
                  IN  ForTokens(Tail(tokens), WhileOperators(pushed, sigs), th, sigs)

\* match(document_representation, query_representation), the query given as
\* the tokens re.split leaves: the words, and each of ( ) & - | on its own.
sig_match(th, sigs, tokens) ==
    LET st == ForTokens(tokens, MatchState(<<>>, <<>>, <<>>, FALSE), th, sigs)
    IN  IF st.err THEN [err |-> TRUE, doc_ids |-> <<>>]
        ELSE IF st.operators = <<>>
             THEN IF st.stack = <<>> THEN [err |-> TRUE, doc_ids |-> <<>>]
                  ELSE [err |-> FALSE, doc_ids |-> search(Last(st.stack), sigs)]
        ELSE [err |-> FALSE, doc_ids |-> st.doc_ids]

(***************************************************************************)
(* Inputs and actions of the signature model                               *)
(***************************************************************************)

\* Term lists long enough to fill one block and start the next.
SigTermLists == SeqsUpTo(SigDocTerms, num_hash_functions + 1)

\* Collections: documents numbered from 0 in order, as extraction numbers them.
SigCollections ==
    {c : c \in UNION {[1 .. n -> SigTermLists] : n \in 0 .. MaxSigDocs}}

\* Queries: a term, NOT a term, two terms joined by an operator, three terms
\* joined by '|'.
SigQueries ==
    {q : q \in {<<t>> : t \in SigTerms}
               \cup {<<"-", t>> : t \in SigTerms}
               \cup {<<t, o, u>> : t \in SigTerms, o \in Operators, u \in SigTerms}
               \cup {<<t, "|", u, "|", v>> : t \in SigTerms, u \in SigTerms, v \in SigTerms}}

SigIdle == [op |-> "idle", tokens |-> <<>>, err |-> FALSE, doc_ids |-> <<>>]

\* The signature model as its constructor leaves it, with the samples that
\* random.sample will return; the inverted-list model is not used.
SigInit ==
    /\ term_hash = <<>>
    /\ signatures = <<>>
    /\ sig_docs = <<>>
    /\ sig_sample \in [Seeds -> SampleSets]
    /\ sig_builds = 0
    /\ sig_indexed = {}
    /\ rng \in Seeds
    /\ sev = SigIdle
    /\ documents = <<>>
    /\ inverted_index = EmptyIndex
    /\ queried = FALSE
    /\ ev = Idle
    /\ vec_collection = <<>>
    /\ index = <<>>
    /\ vec_builds = 0
    /\ vev = [op |-> "idle", query |-> <<>>, err |-> FALSE, ranked |-> <<>>]
    /\ stem_input = <<>>
    /\ stem_word = <<>>
    /\ stem_before = <<>>
    /\ stem_pc = "unused"

\* The generator after _generate_signature has run over the documents: seeded
\* with the hash of the last term processed, untouched when there was none.
RngAfter(state, docs) ==
    LET with_terms == {i \in DOMAIN docs : docs[i] # <<>>}
    IN  IF with_terms = {} THEN state
        ELSE LET i == CHOOSE j \in with_terms : \A k \in with_terms : k <= j
             IN  random_seed(state, compute_hash(Last(docs[i])))

\* document_to_representation(collection, stopword_filtering, stemming) of
\* the signature model.  With stemming the collection is replaced by the
\* return value of porter.stem_all_documents, which is None, and iterating
\* it raises TypeError before any signature is built.
SigBuild(collection, stopword_filtering, stemming) ==
    /\ sev.op = "idle"
    /\ sig_builds < MaxBuilds
    /\ sig_builds' = sig_builds + 1
    /\ LET filtered == [i \in DOMAIN collection |->
                           IF stopword_filtering
                           THEN remove_stop_words_from_term_list(collection[i])
                           ELSE collection[i]]
           lowered == [i \in DOMAIN collection |->
                          [k \in DOMAIN filtered[i] |-> Lower(filtered[i][k])]]
       IN  IF stemming
           THEN /\ sev' = [op |-> "build", tokens |-> <<>>, err |-> TRUE, doc_ids |-> <<>>]
                /\ UNCHANGED <<term_hash, signatures, sig_docs, sig_indexed, rng>>
           ELSE /\ sig_docs' = lowered
                /\ signatures' = [i \in DOMAIN lowered |->
                                    [id |-> i - 1, sig |-> generate_signature(sig_sample, lowered[i])]]
                /\ term_hash' = TermHashOfAll(term_hash, sig_sample, lowered, 1)
                /\ sig_indexed' = sig_indexed \cup UNION {Range(lowered[i]) : i \in DOMAIN lowered}
                /\ rng' = RngAfter(rng, lowered)
                /\ sev' = [op |-> "build", tokens |-> <<>>, err |-> FALSE, doc_ids |-> <<>>]
    /\ UNCHANGED sig_sample
    /\ UNCHANGED invVars
    /\ UNCHANGED vecVars
    /\ UNCHANGED stemVars

\* match(signatures, query)
SigMatch(tokens) ==
    /\ sev.op = "idle"
    /\ LET r == sig_match(term_hash, signatures, tokens)
       IN  sev' = [op |-> "match", tokens |-> tokens, err |-> r.err, doc_ids |-> r.doc_ids]
    /\ UNCHANGED <<term_hash, signatures, sig_docs, sig_sample, sig_builds, sig_indexed, rng>>
    /\ UNCHANGED invVars
    /\ UNCHANGED vecVars
    /\ UNCHANGED stemVars

\* the caller takes the result (or the exception) and goes on
SigReturn ==
    /\ sev.op # "idle"
    /\ sev' = SigIdle
    /\ UNCHANGED <<term_hash, signatures, sig_docs, sig_sample, sig_builds, sig_indexed, rng>>
    /\ UNCHANGED invVars
    /\ UNCHANGED vecVars
    /\ UNCHANGED stemVars

SigNext ==
    \/ \E c \in SigCollections, f \in BOOLEAN, s \in BOOLEAN : SigBuild(c, f, s)
    \/ \E tokens \in SigQueries : SigMatch(tokens)
    \/ SigReturn

SigSpec == SigInit /\ [][SigNext]_vars

(***************************************************************************)
(* VectorSpaceModel                                                        *)
(***************************************************************************)
MaxVecDocs == 2          \* documents of the collection of the vector model
ManyOccurrences == 2500  \* occurrences of a term that fills a document
MaxIndexings == 2        \* calls of document_to_representation in one run
MaxVecQueryLen == 2      \* terms of a query to the vector model

\* self.total_docs = 82
total_docs == 82

\* round(10 ** 8 * math.log(n)) for n = 1 .. 82: logarithms in units of 10^-8.
LnTimes10to8 == <<
    0, 69314718, 109861229, 138629436, 160943791, 179175947,
    194591015, 207944154, 219722458, 230258509, 239789527, 248490665,
    256494936, 263905733, 270805020, 277258872, 283321334, 289037176,
    294443898, 299573227, 304452244, 309104245, 313549422, 317805383,
    321887582, 325809654, 329583687, 333220451, 336729583, 340119738,
    343398720, 346573590, 349650756, 352636052, 355534806, 358351894,
    361091791, 363758616, 366356165, 368887945, 371357207, 373766962,
    376120012, 378418963, 380666249, 382864140, 385014760, 387120101,
    389182030, 391202301, 393182563, 395124372, 397029191, 398898405,
    400733319, 402535169, 404305127, 406044301, 407753744, 409434456,
    411087386, 412713439, 414313473, 415888308, 417438727, 418965474,
    420469262, 421950771, 423410650, 424849524, 426267988, 427666612,
    429045944, 430406509, 431748811, 433073334, 434380542, 435670883,
    436944785, 438202663, 439444915, 440671925 >>

\* Natural numbers beyond the integers of the checker: digits to the base
\* 10000, the least significant first, no leading zero digit (0 is << >>).
Base == 100 * 100

RECURSIVE Limbs(_)
Limbs(n) == IF n = 0 THEN <<>> ELSE <<n % Base>> \o Limbs(n \div Base)

RECURSIVE Carry(_, _)
Carry(raw, c) ==
    IF raw = <<>> THEN Limbs(c)
    ELSE LET v == Head(raw) + c
         IN  <<v % Base>> \o Carry(Tail(raw), v \div Base)

DigitOf(x, k) == IF k \in DOMAIN x THEN x[k] ELSE 0

AddL(x, y) ==
    LET n == IF Len(x) < Len(y) THEN Len(y) ELSE Len(x)
    IN  Carry([k \in 1 .. n |-> DigitOf(x, k) + DigitOf(y, k)], 0)

RECURSIVE SumOfProducts(_, _, _, _)
SumOfProducts(x, y, k, i) ==
    IF i > Len(x) THEN 0
    ELSE x[i] * DigitOf(y, k + 1 - i) + SumOfProducts(x, y, k, i + 1)

MulL(x, y) ==
    IF x = <<>> \/ y = <<>> THEN <<>>
    ELSE Carry([k \in 1 .. (Len(x) + Len(y) - 1) |-> SumOfProducts(x, y, k, 1)], 0)

RECURSIVE LeL(_, _)
LeL(x, y) ==
    IF Len(x) # Len(y) THEN Len(x) < Len(y)
    ELSE IF x = <<>> THEN TRUE
    ELSE IF x[Len(x)] # y[Len(y)] THEN x[Len(x)] < y[Len(y)]
    ELSE LeL(SubSeq(x, 1, Len(x) - 1), SubSeq(y, 1, Len(y) - 1))

\* The sum of the numbers fn[t], t in the domain of fn.
RECURSIVE SumLimbs(_)
SumLimbs(fn) ==
    IF DOMAIN fn = {} THEN <<>>
    ELSE LET t == CHOOSE u \in DOMAIN fn : TRUE
         IN  AddL(fn[t], SumLimbs([u \in (DOMAIN fn) \ {t} |-> fn[u]]))

\* Counter(terms) of a document: a term list is kept as the bag of its terms.
Occurrences == {0, 1, ManyOccurrences}

TermBags ==
    {[t \in {u \in SigDocTerms : c[u] > 0} |-> c[t]] : c \in [SigDocTerms -> Occurrences]}

\* Collections: documents numbered from 0 in order, as extraction numbers them.
VecCollections ==
    {[i \in DOMAIN c |-> [document_id |-> i - 1, terms |-> c[i]]] :
        c \in UNION {[1 .. n -> TermBags] : n \in 0 .. MaxVecDocs}}

\* Queries, split at the blanks: one to MaxVecQueryLen lower-case terms.
VecQueries == {q : q \in SeqsUpTo(SigTerms, MaxVecQueryLen) \ {<<>>}}

\* cleanup.remove_stop_words_from_term_list on a bag of terms: the cleaned
\* (lower-cased) terms that are not in the cleaned list itself.
remove_stop_words_from_bag(terms) ==
    LET cleaned_terms == BagOfAll(Lower, terms)
    IN  [t \in {u \in DOMAIN cleaned_terms : u \notin DOMAIN cleaned_terms} |-> cleaned_terms[t]]

\* The (doc_id, count) pairs the documents k, k+1, ... append to index[term].
RECURSIVE PostingsFrom(_, _, _)
PostingsFrom(docs, term, k) ==
    IF k > Len(docs) THEN <<>>
    ELSE (IF term \in DOMAIN docs[k].terms
          THEN <<<<docs[k].document_id, docs[k].terms[term]>>>> ELSE <<>>)
         \o PostingsFrom(docs, term, k + 1)

\* The loop of document_to_representation (lines 288-296): every document
\* appends (doc_id, count) to the list of each of its terms.
IndexAfter(idx, docs) ==
    [t \in (DOMAIN idx) \cup UNION {DOMAIN docs[i].terms : i \in DOMAIN docs} |->
        (IF t \in DOMAIN idx THEN idx[t] ELSE <<>>) \o PostingsFrom(docs, t, 1)]

\* get_overall_term_freq(term): the length of the term's list
get_overall_term_freq(idx, term) ==
    IF term \in DOMAIN idx THEN Len(idx[term]) ELSE 0

\* calculated_idf(term) = math.log(N / ni) with N = self.total_docs, 0 for
\* ni = 0; in units of 10^-8.
calculated_idf(idx, term) ==
    LET ni == get_overall_term_freq(idx, term)
        N == total_docs
    IN  IF ni # 0 THEN LnTimes10to8[N] - LnTimes10to8[ni] ELSE 0

\* get_term_frequencey(term, doc_id): the count of the last pair of the
\* term's list that has the id, 0 without one.
get_term_frequencey(idx, term, doc_id) ==
    LET doc_term == idx[term]
        hits == {i \in DOMAIN doc_term : doc_term[i][1] = doc_id}
    IN  IF hits = {} THEN 0
        ELSE doc_term[CHOOSE i \in hits : \A j \in hits : j <= i][2]

\* tf * idf, a number of many digits
calculate_tfidf(idx, term, doc_id) ==
    MulL(Limbs(get_term_frequencey(idx, term, doc_id)), Limbs(calculated_idf(idx, term)))

vector_calculation(idx, doc_id) ==
    [term \in DOMAIN idx |-> calculate_tfidf(idx, term, doc_id)]

\* query_to_representation(query): (count / query_length) * idf per term of
\* the query.  The vector is kept multiplied by query_length, which leaves
\* its direction, and so every cosine, as it is.
vec_query_to_representation(idx, query_terms) ==
    [term \in Range(query_terms) |->
        MulL(Limbs(Cardinality({i \in DOMAIN query_terms : query_terms[i] = term})),
             Limbs(calculated_idf(idx, term)))]

\* A similarity: its square as the fraction num / den, 0 being 0 / 1.
Similarity(num, den) == [num |-> num, den |-> den]

IsPositive(similarity) == similarity.num # <<>>

\* cosine_similarity(vec1, vec2): 0.0 when a norm is 0, else
\* dot_product / (norm1 * norm2); here all components are >= 0.
cosine_similarity(vec1, vec2) ==
    LET dot_product ==
            SumLimbs([term \in DOMAIN vec1 |->
                         MulL(vec1[term],
                              IF term \in DOMAIN vec2 THEN vec2[term] ELSE Limbs(0))])
        norm1_squared == SumLimbs([term \in DOMAIN vec1 |-> MulL(vec1[term], vec1[term])])
        norm2_squared == SumLimbs([term \in DOMAIN vec2 |-> MulL(vec2[term], vec2[term])])
    IN  IF norm1_squared = <<>> \/ norm2_squared = <<>>
        THEN Similarity(<<>>, Limbs(1))
        ELSE Similarity(MulL(dot_product, dot_product), MulL(norm1_squared, norm2_squared))

\* round(similarity, 3), in thousandths: the greatest k in lo .. hi with
\* k - 1/2 <= 1000 * similarity, that is (2k - 1)^2 * den <= 4000000 * num.
RECURSIVE RoundFrom(_, _, _)
RoundFrom(similarity, lo, hi) ==
    IF lo = hi THEN lo
    ELSE LET k == (lo + hi + 1) \div 2
         IN  IF LeL(MulL(Limbs((2 * k - 1) * (2 * k - 1)), similarity.den),
                    MulL(Limbs(4 * 1000 * 1000), similarity.num))
             THEN RoundFrom(similarity, k, hi)
             ELSE RoundFrom(similarity, lo, k - 1)

Round3(similarity) == RoundFrom(similarity, 0, 1000)

\* document_scores[doc_id] = score on a dict kept as a list of pairs.
DictPut(items, key, value) ==
    IF \E i \in DOMAIN items : items[i][1] = key
    THEN [i \in DOMAIN items |-> IF items[i][1] = key THEN <<key, value>> ELSE items[i]]
    ELSE Append(items, <<key, value>>)

\* The loop of match (lines 369-377) over the documents k, k+1, ...
RECURSIVE ScoresFrom(_, _, _, _, _)
ScoresFrom(idx, docs, query_representation, k, document_scores) ==
    IF k > Len(docs) THEN document_scores
    ELSE LET doc_id == docs[k].document_id
             doc_vector == vector_calculation(idx, doc_id)
             similarity == cosine_similarity(query_representation, doc_vector)
         IN  ScoresFrom(idx, docs, query_representation, k + 1,
                        IF IsPositive(similarity)
                        THEN DictPut(document_scores, doc_id, Round3(similarity))
                        ELSE document_scores)

\* Mutant of InsertDescending: the item goes before the items equal to it.
InsertBeforeEqual(ranked, item) ==
    LET n == Cardinality({i \in DOMAIN ranked : ranked[i][2] > item[2]})
    IN  SubSeq(ranked, 1, n) \o <<item>> \o SubSeq(ranked, n + 1, Len(ranked))

\* One item more in a list sorted by descending score: after the items that
\* are greater or equal, as a stable sort puts it.
InsertDescending(ranked, item) ==
    LET n == Cardinality({i \in DOMAIN ranked : ranked[i][2] >= item[2]})
    IN  SubSeq(ranked, 1, n) \o <<item>> \o SubSeq(ranked, n + 1, Len(ranked))

\* sorted(document_scores.items(), key=lambda item: item[1], reverse=True)
RECURSIVE SortedDescending(_)
SortedDescending(items) ==
    IF items = <<>> THEN <<>>
    ELSE InsertDescending(SortedDescending(SubSeq(items, 1, Len(items) - 1)),
                          items[Len(items)])

\* match(document_representation, query_representation) of the vector model
vec_match(idx, docs, query_representation) ==
    SortedDescending(ScoresFrom(idx, docs, query_representation, 1, <<>>))

VecIdle == [op |-> "idle", query |-> <<>>, err |-> FALSE, ranked |-> <<>>]

\* The vector model as its constructor leaves it, and a collection with
\* unique document ids; the other models are not used.
VecInit ==
    /\ vec_collection \in VecCollections
    /\ index = <<>>
    /\ vec_builds = 0
    /\ vev = VecIdle
    /\ documents = <<>>
    /\ inverted_index = EmptyIndex
    /\ queried = FALSE
    /\ ev = Idle
    /\ term_hash = <<>>
    /\ signatures = <<>>
    /\ sig_docs = <<>>
    /\ sig_sample = <<>>
    /\ sig_builds = 0
    /\ sig_indexed = {}
    /\ rng = 0
    /\ sev = SigIdle
    /\ stem_input = <<>>
    /\ stem_word = <<>>
    /\ stem_before = <<>>
    /\ stem_pc = "unused"

\* document_to_representation(collection, stopword_filtering, stemming) of
\* the vector model.  Stop-word filtering and lower-casing replace d.terms of
\* the documents themselves.  With stemming the collection is replaced by the
\* return value of porter.stem_all_documents, which is None, and iterating it
\* raises TypeError before anything is indexed.
VecIndex(stopword_filtering, stemming) ==
    /\ vev.op = "idle"
    /\ vec_builds < MaxIndexings
    /\ vec_builds' = vec_builds + 1
    /\ LET filtered == [i \in DOMAIN vec_collection |->
                           [document_id |-> vec_collection[i].document_id,
                            terms |-> IF stopword_filtering
                                      THEN remove_stop_words_from_bag(vec_collection[i].terms)
                                      ELSE vec_collection[i].terms]]
           lowered == [i \in DOMAIN filtered |->
                          [document_id |-> filtered[i].document_id,
                           terms |-> BagOfAll(Lower, filtered[i].terms)]]
       IN  IF stemming
           THEN /\ vec_collection' = filtered
                /\ vev' = [op |-> "index", query |-> <<>>, err |-> TRUE, ranked |-> <<>>]
                /\ UNCHANGED index
           ELSE /\ vec_collection' = lowered
                /\ index' = IndexAfter(index, lowered)
                /\ vev' = [op |-> "index", query |-> <<>>, err |-> FALSE, ranked |-> <<>>]
    /\ UNCHANGED invVars
    /\ UNCHANGED sigVars
    /\ UNCHANGED stemVars

\* match(collection, query_to_representation(query))
VecMatch(query_terms) ==
    /\ vev.op = "idle"
    /\ LET query_representation == vec_query_to_representation(index, query_terms)
       IN  vev' = [op |-> "match", query |-> query_terms, err |-> FALSE,
                   ranked |-> vec_match(index, vec_collection, query_representation)]
    /\ UNCHANGED <<vec_collection, index, vec_builds>>
    /\ UNCHANGED invVars
    /\ UNCHANGED sigVars
    /\ UNCHANGED stemVars

\* the caller takes the result (or the exception) and goes on
VecReturn ==
    /\ vev.op # "idle"
    /\ vev' = VecIdle
    /\ UNCHANGED <<vec_collection, index, vec_builds>>
    /\ UNCHANGED invVars
    /\ UNCHANGED sigVars
    /\ UNCHANGED stemVars

VecNext ==
    \/ \E f \in BOOLEAN, s \in BOOLEAN : VecIndex(f, s)
    \/ \E query_terms \in VecQueries : VecMatch(query_terms)
    \/ VecReturn

VecSpec == VecInit /\ [][VecNext]_vars

(***************************************************************************)
(* Porter stemmer (src/porter.py).  A word is the list of its characters.  *)
(***************************************************************************)

\* The character classes of the regular expressions: [aeiou] and [aeiouy].
Vowels == {"a", "e", "i", "o", "u"}
VowelsAndY == Vowels \cup {"y"}

\* re.sub(r'[class]+', mark, s), or with negated r'[^class]+': every maximal
\* run of characters of the class is replaced by one mark.
re_sub(class, negated, mark, s) ==
    LET hit(i) == (s[i] \in class) # negated
        out[i \in 0 .. Len(s)] ==
            IF i = 0 THEN <<>>
            ELSE IF ~hit(i) THEN Append(out[i - 1], s[i])
            ELSE IF i = 1 \/ ~hit(i - 1) THEN Append(out[i - 1], mark)
            ELSE out[i - 1]
    IN  out[Len(s)]

\* get_measure(term): consonant runs become C, then vowel runs become V, and
\* the occurrences of VC are counted.
get_measure(term) ==
    LET consonants_marked == re_sub(Vowels, TRUE, "C", term)
        form == re_sub(VowelsAndY, FALSE, "V", consonants_marked)
    IN  Cardinality({i \in 1 .. Len(form) - 1 : form[i] = "V" /\ form[i + 1] = "C"})

\* condition_v(stem): re.search(r'[aeiouy]', stem)
condition_v(stem) == \E i \in DOMAIN stem : stem[i] \in VowelsAndY

\* condition_d(stem): re.search(r'([^aeiou])\1$', stem)
condition_d(stem) ==
    /\ Len(stem) >= 2
    /\ stem[Len(stem)] \notin Vowels
    /\ stem[Len(stem) - 1] = stem[Len(stem)]

\* cond_o(stem): re.search(r'[^aeiou][aeiouy][^aeiouwxy]$', stem)
cond_o(stem) ==
    /\ Len(stem) >= 3
    /\ stem[Len(stem) - 2] \notin Vowels
    /\ stem[Len(stem) - 1] \in VowelsAndY
    /\ stem[Len(stem)] \notin (Vowels \cup {"w", "x", "y"})

\* term.lower(), for the one upper-case letter of the alphabet below.
lower(word) == [i \in DOMAIN word |-> IF word[i] = "A" THEN "a" ELSE word[i]]

\* word.endswith(suffix)
endswith(word, suffix) ==
    /\ Len(word) >= Len(suffix)
    /\ SubSeq(word, Len(word) - Len(suffix) + 1, Len(word)) = suffix

\* word[:-n]
drop_last(word, n) == SubSeq(word, 1, Len(word) - n)

replace_suffix(word, suffix, replacement) ==
    IF endswith(word, suffix)
    THEN drop_last(word, Len(suffix)) \o replacement
    ELSE word

step_1a(word) ==
    IF endswith(word, <<"s", "s", "e", "s">>) THEN replace_suffix(word, <<"s", "s", "e", "s">>, <<"s", "s">>)
    ELSE IF endswith(word, <<"i", "e", "s">>) THEN replace_suffix(word, <<"i", "e", "s">>, <<"i">>)
    ELSE IF endswith(word, <<"s", "s">>) THEN word
    ELSE IF endswith(word, <<"s">>) THEN replace_suffix(word, <<"s">>, <<>>)
    ELSE word

step_1b_2(word) ==
    IF \/ endswith(word, <<"a", "t">>)
       \/ endswith(word, <<"b", "l">>)
       \/ endswith(word, <<"i", "z">>)
    THEN Append(word, "e")
    ELSE IF /\ condition_d(word)
            /\ ~(\/ endswith(word, <<"l", "l">>)
                 \/ endswith(word, <<"s", "s">>)
                 \/ endswith(word, <<"z", "z">>))
    THEN drop_last(word, 1)
    ELSE IF get_measure(word) = 1 /\ cond_o(word)
    THEN Append(word, "e")
    ELSE word

step_1b(word) ==
    IF endswith(word, <<"e", "e", "d">>)
    THEN LET stem == replace_suffix(word, <<"e", "e", "d">>, <<>>)
         IN  IF get_measure(stem) > 0 THEN stem \o <<"e", "e">> ELSE word
    ELSE IF endswith(word, <<"e", "d">>)
    THEN LET stem == replace_suffix(word, <<"e", "d">>, <<>>)
         IN  IF condition_v(stem) THEN step_1b_2(stem) ELSE word
    ELSE IF endswith(word, <<"i", "n", "g">>)
    THEN LET stem == replace_suffix(word, <<"i", "n", "g">>, <<>>)
         IN  IF condition_v(stem) THEN step_1b_2(stem) ELSE word
    ELSE word

step_1c(word) ==
    IF endswith(word, <<"y">>)
    THEN LET stem == replace_suffix(word, <<"y">>, <<>>)
         IN  IF condition_v(stem) THEN Append(stem, "i") ELSE word
    ELSE word

\* The dict of step_2, in insertion order: <<suffix, replacement>>.
step_2_suffixes ==
    << << <<"a", "t", "i", "o", "n", "a", "l">>, <<"a", "t", "e">> >>,
        << <<"t", "i", "o", "n", "a", "l">>, <<"t", "i", "o", "n">> >>,
        << <<"e", "n", "c", "i">>, <<"e", "n", "c", "e">> >>,
        << <<"a", "n", "c", "i">>, <<"a", "n", "c", "e">> >>,
        << <<"i", "z", "e", "r">>, <<"i", "z", "e">> >>,
        << <<"a", "b", "l", "i">>, <<"a", "b", "l", "e">> >>,
        << <<"a", "l", "l", "i">>, <<"a", "l">> >>,
        << <<"e", "n", "t", "l", "i">>, <<"e", "n", "t">> >>,
        << <<"e", "l", "i">>, <<"e">> >>,
        << <<"o", "u", "s", "l", "i">>, <<"o", "u", "s">> >>,
        << <<"i", "z", "a", "t", "i", "o", "n">>, <<"i", "z", "e">> >>,
        << <<"a", "t", "i", "o", "n">>, <<"a", "t", "e">> >>,
        << <<"a", "t", "o", "r">>, <<"a", "t", "e">> >>,
        << <<"a", "l", "i", "s", "m">>, <<"a", "l">> >>,
        << <<"i", "v", "e", "n", "e", "s", "s">>, <<"i", "v", "e">> >>,
        << <<"f", "u", "l", "n", "e", "s", "s">>, <<"f", "u", "l">> >>,
        << <<"o", "u", "s", "n", "e", "s", "s">>, <<"o", "u", "s">> >>,
        << <<"a", "l", "i", "t", "i">>, <<"a", "l">> >>,
        << <<"i", "v", "i", "t", "i">>, <<"i", "v", "e">> >>,
        << <<"b", "i", "l", "i", "t", "i">>, <<"b", "l", "e">> >> >>

\* The dict of step_3, in insertion order.
step_3_suffixes ==
    << << <<"i", "c", "a", "t", "e">>, <<"i", "c">> >>,
        << <<"a", "t", "i", "v", "e">>, <<>> >>,
        << <<"a", "l", "i", "z", "e">>, <<"a", "l">> >>,
        << <<"i", "c", "i", "t", "i">>, <<"i", "c">> >>,
        << <<"i", "c", "a", "l">>, <<"i", "c">> >>,
        << <<"f", "u", "l">>, <<>> >>,
        << <<"n", "e", "s", "s">>, <<>> >> >>

\* The list of step_4.
step_4_suffixes ==
    << <<"a", "l">>,
        <<"a", "n", "c", "e">>,
        <<"e", "n", "c", "e">>,
        <<"e", "r">>,
        <<"i", "c">>,
        <<"a", "b", "l", "e">>,
        <<"i", "b", "l", "e">>,
        <<"a", "n", "t">>,
        <<"e", "m", "e", "n", "t">>,
        <<"m", "e", "n", "t">>,
        <<"e", "n", "t">>,
        <<"i", "o", "n">>,
        <<"o", "u">>,
        <<"i", "s", "m">>,
        <<"a", "t", "e">>,
        <<"i", "t", "i">>,
        <<"o", "u", "s">>,
        <<"i", "v", "e">>,
        <<"i", "z", "e">> >>

\* The loop of step_2 and step_3: the first entry, in the order of the dict,
\* whose suffix ends the word and whose stem has measure > 0 rewrites the
\* word; an entry whose stem fails the test is passed over.
first_rewrite(word, suffixes) ==
    LET from[i \in 1 .. Len(suffixes) + 1] ==
            IF i > Len(suffixes) THEN word
            ELSE LET suffix == suffixes[i][1]
                     replacement == suffixes[i][2]
                     stem == replace_suffix(word, suffix, <<>>)
                 IN  IF endswith(word, suffix) /\ get_measure(stem) > 0
                     THEN stem \o replacement
                     ELSE from[i + 1]
    IN  from[1]

step_2(word) == first_rewrite(word, step_2_suffixes)

step_3(word) == first_rewrite(word, step_3_suffixes)

\* The loop of step_4: the first suffix of the list that ends the word and
\* leaves a stem of measure > 1 is removed.
step_4(word) ==
    LET from[i \in 1 .. Len(step_4_suffixes) + 1] ==
            IF i > Len(step_4_suffixes) THEN word
            ELSE LET suffix == step_4_suffixes[i]
                     stem == replace_suffix(word, suffix, <<>>)
                 IN  IF endswith(word, suffix) /\ get_measure(stem) > 1
                     THEN stem
                     ELSE from[i + 1]
    IN  from[1]

\* step_5a removing the final e only from a stem of measure > 1.
step_5a_above_one(word) ==
    IF endswith(word, <<"e">>)
    THEN LET stem == replace_suffix(word, <<"e">>, <<>>)
         IN  IF get_measure(stem) > 1 THEN stem ELSE word
    ELSE word

step_5a(word) ==
    IF endswith(word, <<"e">>)
    THEN LET stem == replace_suffix(word, <<"e">>, <<>>)
         IN  IF \/ get_measure(stem) > 1
                \/ (get_measure(stem) = 1 /\ ~cond_o(stem))
             THEN stem
             ELSE word
    ELSE word

step_5b(word) ==
    IF endswith(word, <<"l">>) /\ get_measure(word) > 1 /\ condition_d(word)
    THEN drop_last(word, 1)
    ELSE word

\* stem_term(term): the steps in sequence.
stem_term(term) ==
    step_5b(step_5a(step_4(step_3(step_2(step_1c(step_1b(step_1a(lower(term)))))))))

(***************************************************************************)
(* Inputs and actions of the stemmer                                       *)
(***************************************************************************)

\* The characters of the arbitrary words.
Alphabet == {"a", "e", "s", "d", "y", "A"}

\* Words of the English language given to the stemmer besides them.
caresses == <<"c", "a", "r", "e", "s", "s", "e", "s">>
agreed == <<"a", "g", "r", "e", "e", "d">>
feed == <<"f", "e", "e", "d">>
opinion == <<"o", "p", "i", "n", "i", "o", "n">>
adoption == <<"a", "d", "o", "p", "t", "i", "o", "n">>
agreement == <<"a", "g", "r", "e", "e", "m", "e", "n", "t">>
style == <<"s", "t", "y", "l", "e">>

StemWords ==
    {w : w \in SeqsUpTo(Alphabet, MaxWordLen)
                \cup {caresses, agreed, feed, opinion, adoption, agreement, style}}

\* stem_term is entered with one of the words.
StemInit ==
    /\ stem_input \in StemWords
    /\ stem_word = stem_input
    /\ stem_before = stem_input
    /\ stem_pc = "lower"
    /\ documents = <<>>
    /\ inverted_index = EmptyIndex
    /\ queried = FALSE
    /\ ev = Idle
    /\ term_hash = <<>>
    /\ signatures = <<>>
    /\ sig_docs = <<>>
    /\ sig_sample = <<>>
    /\ sig_builds = 0
    /\ sig_indexed = {}
    /\ rng = 0
    /\ sev = SigIdle
    /\ vec_collection = <<>>
    /\ index = <<>>
    /\ vec_builds = 0
    /\ vev = VecIdle

\* The statements of stem_term, each assigning to term; stem_before keeps
\* the value the statement was given.

\* term = term.lower()
StemLower ==
    /\ stem_pc = "lower"
    /\ stem_before' = stem_word
    /\ stem_word' = lower(stem_word)
    /\ stem_pc' = "step_1a"
    /\ UNCHANGED stem_input
    /\ UNCHANGED invVars
    /\ UNCHANGED sigVars
    /\ UNCHANGED vecVars

\* term = step_1a(term)
Step1a ==
    /\ stem_pc = "step_1a"
    /\ stem_before' = stem_word
    /\ stem_word' = step_1a(stem_word)
    /\ stem_pc' = "step_1b"
    /\ UNCHANGED stem_input
    /\ UNCHANGED invVars
    /\ UNCHANGED sigVars
    /\ UNCHANGED vecVars

\* term = step_1b(term)
Step1b ==
    /\ stem_pc = "step_1b"
    /\ stem_before' = stem_word
    /\ stem_word' = step_1b(stem_word)
    /\ stem_pc' = "step_1c"
    /\ UNCHANGED stem_input
    /\ UNCHANGED invVars
    /\ UNCHANGED sigVars
    /\ UNCHANGED vecVars

\* term = step_1c(term)
Step1c ==
    /\ stem_pc = "step_1c"
    /\ stem_before' = stem_word
    /\ stem_word' = step_1c(stem_word)
    /\ stem_pc' = "step_2"
    /\ UNCHANGED stem_input
    /\ UNCHANGED invVars
    /\ UNCHANGED sigVars
    /\ UNCHANGED vecVars

\* term = step_2(term)
Step2 ==
    /\ stem_pc = "step_2"
    /\ stem_before' = stem_word
    /\ stem_word' = step_2(stem_word)
    /\ stem_pc' = "step_3"
    /\ UNCHANGED stem_input
    /\ UNCHANGED invVars
    /\ UNCHANGED sigVars
    /\ UNCHANGED vecVars

\* term = step_3(term)
Step3 ==
    /\ stem_pc = "step_3"
    /\ stem_before' = stem_word
    /\ stem_word' = step_3(stem_word)
    /\ stem_pc' = "step_4"
    /\ UNCHANGED stem_input
    /\ UNCHANGED invVars
    /\ UNCHANGED sigVars
    /\ UNCHANGED vecVars

\* term = step_4(term)
Step4 ==
    /\ stem_pc = "step_4"
    /\ stem_before' = stem_word
    /\ stem_word' = step_4(stem_word)
    /\ stem_pc' = "step_5a"
    /\ UNCHANGED stem_input
    /\ UNCHANGED invVars
    /\ UNCHANGED sigVars
    /\ UNCHANGED vecVars

\* term = step_5a(term)
Step5a ==
    /\ stem_pc = "step_5a"
    /\ stem_before' = stem_word
    /\ stem_word' = step_5a(stem_word)
    /\ stem_pc' = "step_5b"
    /\ UNCHANGED stem_input
    /\ UNCHANGED invVars
    /\ UNCHANGED sigVars
    /\ UNCHANGED vecVars

\* term = step_5b(term), after which term is returned
Step5b ==
    /\ stem_pc = "step_5b"
    /\ stem_before' = stem_word
    /\ stem_word' = step_5b(stem_word)
    /\ stem_pc' = "return"
    /\ UNCHANGED stem_input
    /\ UNCHANGED invVars
    /\ UNCHANGED sigVars
    /\ UNCHANGED vecVars

StemNext ==
    \/ StemLower
    \/ Step1a
    \/ Step1b
    \/ Step1c
    \/ Step2
    \/ Step3
    \/ Step4
    \/ Step5a
    \/ Step5b

StemSpec == StemInit /\ [][StemNext]_vars

(***************************************************************************)
(* Properties of the inverted-list model                                   *)
(***************************************************************************)

\* The ids add_document has given out: position in the list, counted from 0.
IndexedIds == {i - 1 : i \in DOMAIN documents}

\* The postings of term t in index idx (no entry: no postings).
Postings(idx, t) == IF t \in DOMAIN idx THEN idx[t] ELSE {}

\* A call that evaluated a query has returned (or raised).
Evaluated == ev.op \in {"evaluate", "match"}

\* term (operator term)*: a flat query without NOT and without parentheses
IsFlat(tokens) ==
    /\ Len(tokens) % 2 = 1
    /\ \A i \in DOMAIN tokens :
          IF i % 2 = 1 THEN tokens[i] \in Terms ELSE tokens[i] \in Operators

\* a flat query of at least two terms, all joined by the operator o
IsFlatOf(tokens, o) ==
    /\ IsFlat(tokens)
    /\ Len(tokens) >= 3
    /\ \A i \in DOMAIN tokens : i % 2 = 0 => tokens[i] = o

\* ((P(t1) op1 P(t2)) op2 P(t3)) ... over the postings of index idx
RECURSIVE LeftToRight(_, _, _)
LeftToRight(acc, tokens, idx) ==
    IF tokens = <<>> THEN acc
    ELSE LET p == Postings(idx, tokens[2])
         IN  LeftToRight(IF tokens[1] = "&" THEN acc \cap p ELSE acc \cup p,
                         Tail(Tail(tokens)), idx)

\* C1: evaluating a query (evaluate_expression, or match) only reads the
\* index: every postings set and the set of indexed terms are the same after
\* the evaluation as before it.
C1_EvaluationOnlyReadsIndex == Evaluated => inverted_index = ev.pre

\* C2: before any query is evaluated, document id i is in inverted_index[T]
\* exactly when T is in the term set of the i-th added document, and no other
\* id is in any postings set.
C2_PostingsIffMember ==
    ~queried =>
        /\ \A i \in IndexedIds, T \in Terms :
              (i \in Postings(inverted_index, T)) <=> (T \in documents[i + 1])
        /\ \A T \in DOMAIN inverted_index : inverted_index[T] \subseteq IndexedIds

\* Two documents were added, one term in both and one term in only one.
C2_Witness ==
    /\ ~queried
    /\ Len(documents) = 2
    /\ \E T, U \in Terms :
          /\ Postings(inverted_index, T) = {0, 1}
          /\ Postings(inverted_index, U) = {1}

\* C3: a flat query joining terms with '&' only evaluates to the intersection
\* of the terms' postings, one joining them with '|' only to their union (the
\* postings being those in the index when the evaluation starts).
C3_ConjunctionDisjunction ==
    Evaluated =>
        /\ IsFlatOf(ev.tokens, "&") =>
              /\ ~ev.ret.err
              /\ \A i \in ev.ret.val :
                    \A k \in DOMAIN ev.tokens : k % 2 = 1 => i \in Postings(ev.pre, ev.tokens[k])
              /\ \A i \in IndexedIds :
                    (\A k \in DOMAIN ev.tokens : k % 2 = 1 => i \in Postings(ev.pre, ev.tokens[k]))
                        => i \in ev.ret.val
        /\ IsFlatOf(ev.tokens, "|") =>
              /\ ~ev.ret.err
              /\ ev.ret.val = UNION {Postings(ev.pre, ev.tokens[k]) :
                                        k \in {j \in DOMAIN ev.tokens : j % 2 = 1}}

\* 'a & b' returned a non-empty set smaller than the postings of a.
C3_Witness ==
    /\ ev.op = "evaluate"
    /\ ev.tokens = <<"a", "&", "b">>
    /\ ev.ret.val # {}
    /\ ev.ret.val # Postings(ev.pre, "a")

\* C4: a flat query t1 op1 t2 op2 ... tn evaluates to
\* ((P(t1) op1 P(t2)) op2 P(t3)) ..., left to right, P being the postings in
\* the index before the evaluation started.
C4_LeftToRight ==
    (Evaluated /\ IsFlat(ev.tokens)) =>
        /\ ~ev.ret.err
        /\ ev.ret.val = LeftToRight(Postings(ev.pre, ev.tokens[1]), Tail(ev.tokens), ev.pre)

\* The parentheses of the token list do not pair up.
RECURSIVE Depth(_, _)
Depth(tokens, d) ==
    IF tokens = <<>> THEN d
    ELSE IF d < 0 THEN d
    ELSE Depth(Tail(tokens), IF Head(tokens) = "(" THEN d + 1
                             ELSE IF Head(tokens) = ")" THEN d - 1 ELSE d)

Unbalanced(tokens) == Depth(tokens, 0) # 0

\* a binary operator with nothing, ')' or another operator to its right
DanglingOperator(tokens) ==
    \E i \in DOMAIN tokens :
        /\ tokens[i] \in Operators
        /\ i = Len(tokens) \/ tokens[i + 1] \in Operators \cup {")"}

\* a NOT that is not followed by a term
NotWithoutOperand(tokens) ==
    \E i \in DOMAIN tokens :
        /\ tokens[i] = "-"
        /\ i = Len(tokens) \/ tokens[i + 1] \notin Terms

Malformed(tokens) ==
    Unbalanced(tokens) \/ DanglingOperator(tokens) \/ NotWithoutOperand(tokens)

\* C5: a malformed expression (unbalanced parentheses, an operator without
\* right operand, a NOT without term) always ends in an error, never in a
\* returned result.
C5_MalformedRaises == (Evaluated /\ Malformed(ev.tokens)) => ev.ret.err

\* C6: the tokens ['-', t] evaluate to all indexed document ids minus the
\* postings of t, and to all of them when t occurs in no document.
C6_NotIsComplement ==
    \A t \in Terms :
        (Evaluated /\ ev.tokens = <<"-", t>>) =>
            /\ ~ev.ret.err
            /\ ev.ret.val = IndexedIds \ Postings(ev.pre, t)
            /\ (\A i \in DOMAIN documents : t \notin documents[i])
                  => ev.ret.val = IndexedIds

\* '- a' returned one of two documents; '- b' returned both, b being in none.
C6_Witness ==
    /\ Evaluated
    /\ Len(documents) = 2
    /\ \/ ev.tokens = <<"-", "a">> /\ ev.ret.val = {1} /\ Postings(ev.pre, "a") = {0}
       \/ /\ ev.tokens = <<"-", "b">> /\ ev.ret.val = {0, 1}
          /\ \A i \in DOMAIN documents : "b" \notin documents[i]

\* C7: the single-token query [t] evaluates to exactly the postings of t; for
\* a term of no document it is the empty set, nothing is raised and the index
\* gains no entry.
C7_SingleTerm ==
    \A t \in Terms :
        (Evaluated /\ ev.tokens = <<t>>) =>
            /\ ~ev.ret.err
            /\ ev.ret.val = Postings(ev.pre, t)
            /\ inverted_index = ev.pre
            /\ (\A i \in DOMAIN documents : t \notin documents[i])
                  => (ev.ret.val = {} /\ t \notin DOMAIN inverted_index)

\* [a] returned two documents; [b] returned none while a is indexed and b is not.
C7_Witness ==
    /\ ev.op = "evaluate"
    /\ \/ ev.tokens = <<"a">> /\ ev.ret.val = {0, 1}
       \/ /\ ev.tokens = <<"b">> /\ ev.ret.val = {}
          /\ DOMAIN inverted_index = {"a"}

\* C8: for a document added at position pos and a well-formed query, match
\* returns 1.0 when pos is in the set the query evaluated to and 0.0 when it
\* is not, also for a document whose term set equals an earlier one's.
C8_MatchIsMembership ==
    (ev.op = "match" /\ ev.tokens \in WellFormedQueries) =>
        /\ ~ev.ret.err
        /\ ev.ret.score = (IF ev.pos \in ev.ret.val THEN 10 ELSE 0)

(***************************************************************************)
(* Properties of the signature model                                       *)
(***************************************************************************)

\* C9: no false negatives.  Once document_to_representation has built the
\* signatures of a collection, the single-term query t, for any term t of
\* the term list of a document d, returns a list that contains d's id.
C9_NoFalseNegatives ==
    \A t \in SigTerms :
        (sev.op = "match" /\ sev.tokens = <<t>>) =>
            /\ ~sev.err
            /\ \A i \in DOMAIN sig_docs :
                  t \in Range(sig_docs[i]) => (i - 1) \in Range(sev.doc_ids)

\* A term of the second block of one document was searched in a collection
\* of two; it returned that document and not the other.
C9_Witness ==
    /\ sev.op = "match"
    /\ Len(sig_docs) = 2
    /\ \E t \in SigTerms :
          /\ sev.tokens = <<t>>
          /\ Len(sig_docs[2]) > num_hash_functions
          /\ sig_docs[2][Len(sig_docs[2])] = t
          /\ t \notin Range(SubSeq(sig_docs[2], 1, num_hash_functions))
          /\ Range(sev.doc_ids) = {1}

\* C10: NOT is the complement over the indexed documents.  The query '-t'
\* returns exactly the ids of the indexed documents that the query 't' does
\* not return.
C10_NotIsComplement ==
    \A t \in SigTerms :
        (sev.op = "match" /\ sev.tokens = <<"-", t>>) =>
            /\ ~sev.err
            /\ Range(sev.doc_ids) =
                  {signatures[i].id : i \in DOMAIN signatures}
                      \ Range(sig_match(term_hash, signatures, <<t>>).doc_ids)

\* term ('|' term)+ : a disjunction of at least two terms
IsDisjunction(tokens) ==
    /\ Len(tokens) >= 3
    /\ Len(tokens) % 2 = 1
    /\ \A i \in DOMAIN tokens :
          IF i % 2 = 1 THEN tokens[i] \in SigTerms ELSE tokens[i] = "|"

\* C11: OR is the union of the branches.  A disjunctive query
\* t1 | t2 | ... | tn, n >= 2, completes without error and returns exactly
\* the union of the ids the single-term queries t1, ..., tn return.
C11_OrIsUnion ==
    (sev.op = "match" /\ IsDisjunction(sev.tokens)) =>
        /\ ~sev.err
        /\ Range(sev.doc_ids) =
              UNION {Range(sig_match(term_hash, signatures, <<sev.tokens[k]>>).doc_ids) :
                        k \in {j \in DOMAIN sev.tokens : j % 2 = 1}}

\* The bits of a stored signature that are set.
BitsSet(block) == {i \in DOMAIN block : block[i] = 1}

\* C12 (as the code has it): a query term that occurs in no indexed document
\* raises no error and resolves to the empty list [], a signature with no bit
\* set and no bit at all; search takes it for a match of every block, so the
\* query returns every document that has a block.
C12_UnknownTermIsEmptyList ==
    \A t \in SigTerms :
        (sev.op = "match" /\ sev.tokens = <<t>> /\ t \notin sig_indexed) =>
            /\ ~sev.err
            /\ sig_query_to_representation(term_hash, t) = <<>>
            /\ Range(sev.doc_ids) =
                  {signatures[i].id : i \in {j \in DOMAIN signatures : signatures[j].sig # <<>>}}

\* 'b' was searched in a built collection of two documents without b, one of
\* them without terms, and returned the other.
C12_Witness ==
    /\ sev.op = "match"
    /\ sev.tokens = <<"b">>
    /\ "b" \notin sig_indexed
    /\ Len(sig_docs) = 2
    /\ sig_docs[1] = <<>>
    /\ sig_docs[2] # <<>>
    /\ sev.doc_ids = <<1>>

\* C12 (as stated): a query term that occurs in no indexed document raises no
\* error and resolves to a block of signature_length bits, all 0.
C12_UnknownTermIsZeroBlock ==
    \A t \in SigTerms :
        (sev.op = "match" /\ sev.tokens = <<t>> /\ t \notin sig_indexed) =>
            /\ ~sev.err
            /\ sig_query_to_representation(term_hash, t) = [i \in 1 .. signature_length |-> 0]

\* The mini-signature of term t under a generator seeded with t's hash.
MiniSignature(t) ==
    [i \in 1 .. signature_length |-> IF (i - 1) \in sig_sample[compute_hash(t)] THEN 1 ELSE 0]

\* C13: every stored mini-signature has signature_length bits of which
\* exactly m are set, and it depends on the term alone: not on the terms and
\* documents processed before it, nor on the state the generator was in.
C13_MiniSignature ==
    \A t \in DOMAIN term_hash :
        /\ Len(term_hash[t]) = signature_length
        /\ Cardinality(BitsSet(term_hash[t])) = m
        /\ term_hash[t] = MiniSignature(t)

\* Two terms with different mini-signatures are stored, the generator having
\* been left with the seed of the second when the first was stored.
C13_Witness ==
    /\ DOMAIN term_hash = SigTerms
    /\ term_hash["a"] # term_hash["b"]
    /\ sig_docs # <<>>
    /\ sig_docs[1] = <<"b", "a">>
    /\ rng = compute_hash("a")

\* The query 't1 & t2' of two words.
IsConjunction(tokens) ==
    /\ Len(tokens) = 3
    /\ tokens[1] \in SigTerms
    /\ tokens[2] = "&"
    /\ tokens[3] \in SigTerms

\* The bits set in both representations of the words of a conjunction, the
\* representation of a word being its stored mini-signature ([] without one).
ConjunctionBits(tokens) ==
    LET bits(t) == IF t \in DOMAIN term_hash THEN BitsSet(term_hash[t]) ELSE {}
    IN  bits(tokens[1]) \cap bits(tokens[3])

\* The ids of the documents with a block in which all the given bits are set.
DocsHaving(bits) ==
    {signatures[k].id : k \in {j \in DOMAIN signatures :
        \E b \in DOMAIN signatures[j].sig : bits \subseteq BitsSet(signatures[j].sig[b])}}

\* C23: for a query 't1 & t2' match returns, each once, exactly the documents
\* with a block that has every bit set that is set in both mini-signatures,
\* and so every document that the query 't1' or the query 't2' returns.
C23_AndIsBitwiseAnd ==
    (sev.op = "match" /\ IsConjunction(sev.tokens)) =>
        /\ ~sev.err
        /\ Range(sev.doc_ids) = DocsHaving(ConjunctionBits(sev.tokens))
        /\ Len(sev.doc_ids) = Cardinality(Range(sev.doc_ids))
        /\ \A k \in {1, 3} :
              Range(sig_match(term_hash, signatures, <<sev.tokens[k]>>).doc_ids)
                  \subseteq Range(sev.doc_ids)

\* A conjunction of two stored words with different mini-signatures has
\* returned a document that the query for its first word does not return.
C23_Witness ==
    /\ sev.op = "match"
    /\ IsConjunction(sev.tokens)
    /\ sev.tokens[1] \in DOMAIN term_hash
    /\ sev.tokens[3] \in DOMAIN term_hash
    /\ term_hash[sev.tokens[1]] # term_hash[sev.tokens[3]]
    /\ ConjunctionBits(sev.tokens) # {}
    /\ \E d \in Range(sev.doc_ids) :
          d \notin Range(sig_match(term_hash, signatures, <<sev.tokens[1]>>).doc_ids)

(***************************************************************************)
(* Properties of the vector space model                                    *)
(***************************************************************************)

\* document_to_representation has returned the documents it indexed.
Indexed == vev.op = "index" /\ ~vev.err

\* The sum of the counts of the pairs k, k+1, ... of a list that have the id.
RECURSIVE CountsFrom(_, _, _)
CountsFrom(pairs, doc_id, k) ==
    IF k > Len(pairs) THEN 0
    ELSE (IF pairs[k][1] = doc_id THEN pairs[k][2] ELSE 0) + CountsFrom(pairs, doc_id, k + 1)

\* The frequencies the index holds for a document, summed over the terms.
RECURSIVE FrequencySum(_, _)
FrequencySum(terms, doc_id) ==
    IF terms = {} THEN 0
    ELSE LET t == CHOOSE u \in terms : TRUE
         IN  CountsFrom(index[t], doc_id, 1) + FrequencySum(terms \ {t}, doc_id)

\* C14: after any sequence of document_to_representation calls over a
\* collection with unique document ids (the same collection indexed again
\* included), the list of each term holds at most one (doc_id, frequency)
\* pair per document id, and the frequencies of a document sum to its term
\* count.
C14_OnePostingPerDocument ==
    Indexed =>
        /\ \A t \in DOMAIN index :
              \A i, j \in DOMAIN index[t] : index[t][i][1] = index[t][j][1] => i = j
        /\ \A d \in DOMAIN vec_collection :
              FrequencySum(DOMAIN index, vec_collection[d].document_id)
                  = BagCardinality(vec_collection[d].terms)

\* The number of indexed documents that contain term t.
DocumentFrequency(t) ==
    Cardinality({d \in DOMAIN vec_collection : t \in DOMAIN vec_collection[d].terms})

\* C15: calculated_idf(t) = ln(N / df(t)), N being the number of documents
\* indexed and df(t) the number of them that contain t, and 0 when df(t) = 0;
\* so idf(t) >= 0.  (Stated after the first indexing of the collection.)
C15_IdfOfIndexedDocuments ==
    (Indexed /\ vec_builds = 1) =>
        \A t \in SigTerms :
            /\ calculated_idf(index, t) =
                  (IF DocumentFrequency(t) = 0 THEN 0
                   ELSE LnTimes10to8[Len(vec_collection)] - LnTimes10to8[DocumentFrequency(t)])
            /\ calculated_idf(index, t) >= 0

\* The position of the document with the id in the sequence given to match.
PositionOf(doc_id) ==
    CHOOSE d \in DOMAIN vec_collection : vec_collection[d].document_id = doc_id

\* The similarity match computes for the document with the id.
SimilarityOf(doc_id) ==
    cosine_similarity(vec_query_to_representation(index, vev.query),
                      vector_calculation(index, doc_id))

\* k / 1000 is a value nearest to the similarity among the numbers with three
\* decimal digits: |1000 * similarity - k| <= 1/2.
NearestThousandth(similarity, k) ==
    /\ k >= 0
    /\ LeL(MulL(Limbs(4 * 1000 * 1000), similarity.num),
           MulL(Limbs((2 * k + 1) * (2 * k + 1)), similarity.den))
    /\ k > 0 => LeL(MulL(Limbs((2 * k - 1) * (2 * k - 1)), similarity.den),
                    MulL(Limbs(4 * 1000 * 1000), similarity.num))

\* C16: match returns (doc_id, similarity) pairs, the similarities rounded to
\* 3 decimal digits, in the order of non-increasing rounded similarity, any
\* two documents of equal rounded similarity in the order of the documents
\* given.
C16_RankedStable ==
    vev.op = "match" =>
        /\ \A i \in DOMAIN vev.ranked :
              /\ Len(vev.ranked[i]) = 2
              /\ \E d \in DOMAIN vec_collection :
                    vec_collection[d].document_id = vev.ranked[i][1]
              /\ NearestThousandth(SimilarityOf(vev.ranked[i][1]), vev.ranked[i][2])
        /\ \A i, j \in DOMAIN vev.ranked :
              i < j =>
                  /\ vev.ranked[i][2] >= vev.ranked[j][2]
                  /\ vev.ranked[i][2] = vev.ranked[j][2]
                        => PositionOf(vev.ranked[i][1]) < PositionOf(vev.ranked[j][1])

\* Two documents were returned with the same similarity, less than 1.0.
C16_Witness ==
    /\ vev.op = "match"
    /\ Len(vev.ranked) = 2
    /\ vev.ranked[1][2] = vev.ranked[2][2]
    /\ vev.ranked[1][2] < 1000
    /\ vev.ranked[1][1] = 0

\* C17: a document that shares no term with the query has similarity 0.0 and
\* is not in the list match returns; every pair of the list has a similarity
\* greater than 0.
C17_OnlyPositiveSimilarities ==
    vev.op = "match" =>
        /\ \A d \in DOMAIN vec_collection :
              (DOMAIN vec_collection[d].terms) \cap Range(vev.query) = {} =>
                  /\ ~IsPositive(SimilarityOf(vec_collection[d].document_id))
                  /\ \A i \in DOMAIN vev.ranked :
                        vev.ranked[i][1] # vec_collection[d].document_id
        /\ \A i \in DOMAIN vev.ranked : vev.ranked[i][2] > 0

(***************************************************************************)
(* Properties of the stemmer                                               *)
(***************************************************************************)

\* C18: every word of at most two characters is a fixed point of the
\* stemmer: stem_term returns it lower-cased and otherwise unchanged.
C18_ShortWordsAreFixedPoints ==
    (stem_pc = "return" /\ Len(stem_input) <= 2)
        => stem_word = lower(stem_input)

\* C19, as stated: the stemmer returns the reference stems: 'caresses' gives
\* 'caress', 'agreed' gives 'agree' and 'feed' gives 'feed'.
C19_ReferenceStems ==
    stem_pc = "return" =>
        /\ stem_input = caresses => stem_word = <<"c", "a", "r", "e", "s", "s">>
        /\ stem_input = agreed => stem_word = <<"a", "g", "r", "e", "e">>
        /\ stem_input = feed => stem_word = feed

\* C19, amended: 'caresses' gives 'caress' and 'feed' gives 'feed'; step 1b
\* rewrites 'agreed' to 'agree' and leaves 'feed' alone, and step 5a then
\* removes the final e of 'agree', so that 'agreed' gives 'agre'.
C19_StemsOfTheCode ==
    /\ stem_pc = "step_1c" =>
           /\ stem_input = agreed => stem_word = <<"a", "g", "r", "e", "e">>
           /\ stem_input = feed => stem_word = feed
    /\ stem_pc = "return" =>
           /\ stem_input = caresses => stem_word = <<"c", "a", "r", "e", "s", "s">>
           /\ stem_input = agreed => stem_word = <<"a", "g", "r", "e">>
           /\ stem_input = feed => stem_word = feed

C19_Witness ==
    /\ stem_pc = "return"
    /\ stem_input = agreed
    /\ stem_word = <<"a", "g", "r", "e">>

\* C20: step 4 removes the suffix 'ion' only from a stem of measure > 1 that
\* ends in 's' or 't'; a word ending in 'ion' whose stem ends in another
\* letter leaves step 4 unchanged.
C20_IonOnlyAfterSOrT ==
    LET ion == <<"i", "o", "n">>
        stem == drop_last(stem_before, 3)
        after_s_or_t == stem # <<>> /\ stem[Len(stem)] \in {"s", "t"}
    IN  (stem_pc = "step_5a" /\ endswith(stem_before, ion)) =>
            /\ stem_word # stem_before =>
                   (stem_word = stem /\ get_measure(stem) > 1 /\ after_s_or_t)
            /\ ~after_s_or_t => stem_word = stem_before

\* C21: in steps 2, 3 and 4 only the longest suffix of the table that ends
\* the word is considered: the word is rewritten by its rule when the stem
\* passes the measure test, and leaves the step unchanged when it does not
\* (or when no suffix of the table ends the word).
C21_LongestSuffixOnly ==
    LET LongestOnly(suffixes, least) ==
            LET matching == {i \in DOMAIN suffixes : endswith(stem_before, suffixes[i][1])}
            IN  IF matching = {} THEN stem_word = stem_before
                ELSE LET longest == CHOOSE i \in matching : \A j \in matching :
                                        Len(suffixes[j][1]) <= Len(suffixes[i][1])
                         stem == drop_last(stem_before, Len(suffixes[longest][1]))
                     IN  stem_word = IF get_measure(stem) > least
                                     THEN stem \o suffixes[longest][2]
                                     ELSE stem_before
        removals == [i \in DOMAIN step_4_suffixes |-> <<step_4_suffixes[i], <<>> >>]
    IN  /\ stem_pc = "step_3" => LongestOnly(step_2_suffixes, 0)
        /\ stem_pc = "step_4" => LongestOnly(step_3_suffixes, 0)
        /\ stem_pc = "step_5a" => LongestOnly(removals, 1)

\* C22: the measure get_measure computes for the stem that step 5a tests (the
\* word without its final e) is the number of places where a consonant is
\* followed by a vowel, the vowels being a, e, i, o, u and a y that follows
\* a consonant.
C22_MeasureCountsYAfterConsonant ==
    LET stem == drop_last(stem_before, 1)
        vowel[i \in 1 .. Len(stem)] ==
            \/ stem[i] \in Vowels
            \/ (stem[i] = "y" /\ i > 1 /\ ~vowel[i - 1])
        transitions == {i \in 1 .. Len(stem) - 1 : ~vowel[i] /\ vowel[i + 1]}
    IN  (stem_pc = "step_5b" /\ endswith(stem_before, <<"e">>))
            => get_measure(stem) = Cardinality(transitions)

====
